---- MODULE Spec2Model ----
(***************************************************************************)
(* VoiceHealth JSON validator (json_filter): validate_voicehealth_json,   *)
(* its set_error helper, and the validate_cli wrapper (read_all_stdin and  *)
(* main).  cJSON is a third-party library; a text is represented by what   *)
(* cJSON_Parse makes of it (a parse failure, or a tree with a root type    *)
(* and the members of the root object).                                    *)
(***************************************************************************)
EXTENDS Integers, Sequences, FiniteSets, TLC

\* ------------------------------------------------------------------ bounds
\* Cells of caller memory modelled from the address error_msg points to.
MemSize == 64
\* Heap cells available to cJSON_Parse.
NumAddrs == 3

\* --------------------------------------------------------------- constants
SEVERITY_MIN == 0
SEVERITY_MAX == 10
\* A double is modelled in fixed point: Scale units make 1.0, so 5.5 is
\* 55000 and 10.0001 is 100001.
Scale == 10000

\* validate_cli.c
INITIAL_CAP == 4096
MIN_SPACE == 2048
ERR_SIZE == 256
\* Most bytes that standard input holds.
MaxStdin == 15000

NUL == "NUL"
LF == "LF"
\* Content of memory the validator has not written.
Fill == "?"

Min(a, b) == IF a < b THEN a ELSE b

\* ------------------------------------------------------ diagnostic strings
\* "Input string is null" (20 characters)
MSG_INPUT_NULL ==
    <<"I","n","p","u","t"," ","s","t","r","i","n","g"," ","i","s"," ","n","u","l","l">>
\* "Malformed JSON" (14 characters)
MSG_MALFORMED ==
    <<"M","a","l","f","o","r","m","e","d"," ","J","S","O","N">>
\* "Root must be a JSON object" (26 characters)
MSG_ROOT ==
    <<"R","o","o","t"," ","m","u","s","t"," ","b","e"," ","a"," ","J","S","O","N"," ","o","b","j","e","c","t">>
\* "Missing or invalid 'symptoms' (must be array)" (45 characters)
MSG_SYMPTOMS ==
    <<"M","i","s","s","i","n","g"," ","o","r"," ","i","n","v","a","l","i","d"," ","'","s","y","m","p","t","o","m","s","'"," ","(","m","u","s","t"," ","b","e"," ","a","r","r","a","y",")">>
\* "Missing or invalid 'severity' (must be number)" (46 characters)
MSG_SEVERITY ==
    <<"M","i","s","s","i","n","g"," ","o","r"," ","i","n","v","a","l","i","d"," ","'","s","e","v","e","r","i","t","y","'"," ","(","m","u","s","t"," ","b","e"," ","n","u","m","b","e","r",")">>
\* "Severity must be between 0 and 10" (33 characters)
MSG_RANGE ==
    <<"S","e","v","e","r","i","t","y"," ","m","u","s","t"," ","b","e"," ","b","e","t","w","e","e","n"," ","0"," ","a","n","d"," ","1","0">>
\* "Missing or invalid 'potential_triggers' (must be array)" (55 characters)
MSG_TRIGGERS ==
    <<"M","i","s","s","i","n","g"," ","o","r"," ","i","n","v","a","l","i","d"," ","'","p","o","t","e","n","t","i","a","l","_","t","r","i","g","g","e","r","s","'"," ","(","m","u","s","t"," ","b","e"," ","a","r","r","a","y",")">>

\* "Failed to read stdin"
MSG_READ_FAILED ==
    <<"F","a","i","l","e","d"," ","t","o"," ","r","e","a","d"," ","s","t","d","i","n">>
\* "No input provided on stdin"
MSG_NO_INPUT ==
    <<"N","o"," ","i","n","p","u","t"," ","p","r","o","v","i","d","e","d"," ","o","n"," ","s","t","d","i","n">>

Messages ==
    {MSG_INPUT_NULL, MSG_MALFORMED, MSG_ROOT, MSG_SYMPTOMS, MSG_SEVERITY,
     MSG_RANGE, MSG_TRIGGERS}

\* ------------------------------------------------------------- JSON values
\* A cJSON item: its type and, for a Number, valuedouble in Scale units.
Item(ty, n) == [type |-> ty, num |-> n]
\* What cJSON_GetObjectItemCaseSensitive returns for a key that is not there.
NULLItem == Item("Absent", 0)

SeverityValues ==
    {-1 * Scale, -1, 0, 5 * Scale + Scale \div 2, SEVERITY_MAX * Scale,
     SEVERITY_MAX * Scale + 1, 11 * Scale}

MemberSets ==
    [symptoms : {NULLItem, Item("Array", 0), Item("String", 0)},
     severity : {NULLItem, Item("String", 0)}
                    \cup {Item("Number", v) : v \in SeverityValues},
     potential_triggers : {NULLItem, Item("Array", 0), Item("String", 0)},
     Severity : {NULLItem, Item("Number", 5 * Scale)},
     extra : {NULLItem, Item("True", 0)}]

NoMembers ==
    [symptoms |-> NULLItem, severity |-> NULLItem,
     potential_triggers |-> NULLItem, Severity |-> NULLItem,
     extra |-> NULLItem]

\* A text, by what cJSON_Parse makes of it.
ObjectTexts == {[kind |-> "json", root |-> "Object", members |-> m] : m \in MemberSets}
OtherRootTexts ==
    {[kind |-> "json", root |-> r, members |-> NoMembers] :
        r \in {"Null", "True", "Number", "String", "Array"}}
EmptyText == [kind |-> "empty", root |-> "None", members |-> NoMembers]
MalformedTexts ==
    {EmptyText, [kind |-> "garbage", root |-> "None", members |-> NoMembers]}
Texts == ObjectTexts \cup OtherRootTexts \cup MalformedTexts

\* One text per way a validation can end, and a few more.
FewTexts ==
    {x \in Texts :
        /\ x.kind # "empty"
        /\ x.root # "Null" /\ x.root # "True" /\ x.root # "Number" /\ x.root # "String"
        /\ x.members.Severity = NULLItem
        /\ x.members.extra = NULLItem
        /\ x.members.symptoms.type # "String"
        /\ x.members.potential_triggers.type # "String"
        /\ x.members.severity \in
               {NULLItem, Item("Number", 5 * Scale + Scale \div 2),
                Item("Number", 11 * Scale)}}

\* One text for each way a validation can end.
OneTextEach ==
    {x \in FewTexts :
        /\ x.members.symptoms = NULLItem =>
               x.members.severity = Item("Number", 5 * Scale + Scale \div 2)
        /\ x.members.severity # Item("Number", 5 * Scale + Scale \div 2) =>
               x.members.potential_triggers # NULLItem}

\* The tree cJSON_Parse builds for a text that parses.
Tree(x) == [root |-> x.root, members |-> x.members]
Trees == {Tree(x) : x \in ObjectTexts \cup OtherRootTexts}
NoTree == [root |-> "None", members |-> NoMembers]

\* Callers that may be inside validate_voicehealth_json at the same time.
Threads == {1, 2}
Addrs == 1..NumAddrs
\* Capacities a caller passes as error_size.
ErrorSizes == {0, 1, 2, 15, 21, 34, 56, MemSize}

VARIABLES
    mode,          \* which callers run: "wide", "seq", "conc" or "cli"
    active,        \* the callers that make calls
    pc,            \* each caller's position (a line of validate_voicehealth_json)
    json_string,   \* "NULL" or "text": the pointer passed
    text,          \* the caller's input text
    error_msg,     \* TRUE when the error_msg pointer is not NULL
    error_size,    \* the capacity passed
    mem,           \* caller memory from the address error_msg points to
    root,          \* the local cJSON *root (0 is NULL)
    result,        \* the value returned (-1 while the call runs)
    live,          \* heap cells allocated and not freed
    cell,          \* content of the heap cells
    reported,      \* the message handed to set_error by the current call
    frees,         \* cJSON_Delete calls made by the current call
    uaf,           \* a freed or unallocated tree was read or freed
    lastDiag,      \* the message of the most recent invalid call
    textAtCall,    \* text as it was when the current call began
    mem0,          \* mem as it was before the first call
    memo,          \* one earlier finished call, remembered by the caller
    cli            \* the state of validate_cli (read_all_stdin and main)

valVars ==
    <<pc, json_string, text, error_msg, error_size, mem, root, result, live,
      cell, reported, frees, uaf, lastDiag>>
vars == <<mode, active, valVars, textAtCall, mem0, memo, cli>>

Pool ==
    IF mode = "wide" THEN Texts
    ELSE IF mode = "conc" THEN OneTextEach
    ELSE FewTexts

\* ---------------------------------------------------------------- set_error
\* snprintf(buf, size, "%s", msg) with size > 0: at most size - 1 characters
\* of msg, then the terminator; nothing else is touched.
snprintf(buf, size, msg) ==
    LET k == Min(Len(msg), size - 1)
    IN  [i \in 1..Len(buf) |->
            IF i <= k THEN msg[i] ELSE IF i = k + 1 THEN NUL ELSE buf[i]]

\* strcpy: every character of msg and the terminator, whatever the capacity.
set_error_unbounded(buf, has, size, msg) ==
    IF has
    THEN [i \in 1..Len(buf) |->
            IF i <= Len(msg) THEN msg[i]
            ELSE IF i = Len(msg) + 1 THEN NUL ELSE buf[i]]
    ELSE buf

\* The C string held by the first size cells of buf.
CStr(buf, size) ==
    LET ends == {i \in 1..size : buf[i] = NUL}
        n == IF ends = {} THEN size
             ELSE (CHOOSE i \in ends : \A j \in ends : i <= j) - 1
    IN  SubSeq(buf, 1, n)

\* strncat-like: the message is appended to the string already in the buffer.
set_error_append(buf, has, size, msg) ==
    IF has /\ size > 0
    THEN LET old == CStr(buf, size)
             whole == IF Len(old) = size THEN msg ELSE old \o msg
         IN  snprintf(buf, size, whole)
    ELSE buf

set_error(buf, has, size, msg) ==
    IF has /\ size > 0 THEN snprintf(buf, size, msg) ELSE buf

\* ------------------------------------------------------------------- cJSON
cJSON_IsObject(tr) == tr.root = "Object"
cJSON_IsArray(it) == it.type = "Array"
cJSON_IsNumber(it) == it.type = "Number"

\* cJSON_GetObjectItem: the key is matched without regard to case.
GetObjectItemAnyCase(tr, key) ==
    IF tr.members[key] # NULLItem THEN tr.members[key]
    ELSE IF key = "severity" THEN tr.members.Severity
    ELSE NULLItem

cJSON_GetObjectItemCaseSensitive(tr, key) == tr.members[key]

\* A static root would be one variable for every caller.
RootVarStatic(t) == 1

\* root is a local of the call: each caller has its own.
RootVar(t) == t

Root(t) == root[RootVar(t)]

\* The tree a caller reaches through root; a pointer to a cell that is not
\* live reads whatever the allocator left there.
ReadTree(t) == IF Root(t) \in live THEN {cell[Root(t)]} ELSE Trees

FreshAddr == CHOOSE a \in Addrs \ live : \A b \in Addrs \ live : a <= b

\* ----------------------------------------- validate_voicehealth_json: parts
Fail(t, msg) ==
    /\ mem' = [mem EXCEPT ![t] = set_error(mem[t], error_msg[t], error_size[t], msg)]
    /\ reported' = [reported EXCEPT ![t] = msg]
    /\ lastDiag' = [lastDiag EXCEPT ![t] = msg]
    /\ result' = [result EXCEPT ![t] = 0]
    /\ pc' = [pc EXCEPT ![t] = "done"]

Pass(t, next) ==
    /\ pc' = [pc EXCEPT ![t] = next]
    /\ UNCHANGED <<mem, reported, lastDiag, result>>

\* cJSON_Delete(root): the cell goes back to the allocator, and what it held
\* is gone.
cJSON_Delete(t) ==
    /\ live' = live \ {Root(t)}
    /\ cell' = [a \in Addrs |-> IF a = Root(t) THEN NoTree ELSE cell[a]]
    /\ frees' = [frees EXCEPT ![t] = @ + 1]

\* root is dereferenced or freed
Touch(t) == uaf' = [uaf EXCEPT ![t] = @ \/ Root(t) \notin live]

frame == <<json_string, text, error_msg, error_size>>

SeverityOutOfRangeStrict(s) ==
    s <= SEVERITY_MIN * Scale \/ s >= SEVERITY_MAX * Scale

\* s < SEVERITY_MIN || s > SEVERITY_MAX
SeverityOutOfRange(s) ==
    s < SEVERITY_MIN * Scale \/ s > SEVERITY_MAX * Scale

\* -------------------------------------------------- the caller of the core
\* A caller passes a pointer (NULL or its text) and its buffer.
Call(t) ==
    /\ t \in active
    /\ pc[t] \in {"idle", "done"}
    /\ \E p \in {"NULL", "text"} :
       \E x \in Pool :
          /\ p = "NULL" => x = CHOOSE y \in Pool : TRUE
          /\ json_string' = [json_string EXCEPT ![t] = p]
          /\ text' = [text EXCEPT ![t] = x]
          /\ textAtCall' = [textAtCall EXCEPT ![t] = x]
    /\ memo' = [memo EXCEPT !.fresh = FALSE]
    /\ pc' = [pc EXCEPT ![t] = "L23"]
    /\ result' = [result EXCEPT ![t] = -1]
    /\ reported' = [reported EXCEPT ![t] = <<>>]
    /\ frees' = [frees EXCEPT ![t] = 0]
    /\ UNCHANGED <<error_msg, error_size, mem, root, live, cell, uaf, lastDiag>>
    /\ UNCHANGED <<mode, active, mem0, cli>>

\* ------------------------------------------------ validate_voicehealth_json
\* if (json_string == NULL)
L23_NullCheck(t) ==
    /\ t \in active
    /\ pc[t] = "L23"
    /\ IF json_string[t] = "NULL"
       THEN Fail(t, MSG_INPUT_NULL)
       ELSE Pass(t, "L29")
    /\ UNCHANGED <<root, live, cell, frees, uaf, frame>>
    /\ UNCHANGED <<mode, active, textAtCall, mem0, memo, cli>>

\* root = cJSON_Parse(json_string); if (root == NULL)
L29_Parse(t) ==
    /\ t \in active
    /\ pc[t] = "L29"
    /\ IF text[t].kind = "json"
       THEN /\ Addrs \ live # {}
            /\ root' = [root EXCEPT ![RootVar(t)] = FreshAddr]
            /\ live' = live \cup {FreshAddr}
            /\ cell' = [cell EXCEPT ![FreshAddr] = Tree(text[t])]
            /\ Pass(t, "L36")
       ELSE /\ root' = [root EXCEPT ![RootVar(t)] = 0]
            /\ Fail(t, MSG_MALFORMED)
            /\ UNCHANGED <<live, cell>>
    /\ UNCHANGED <<frees, uaf, frame>>
    /\ UNCHANGED <<mode, active, textAtCall, mem0, memo, cli>>

\* if (!cJSON_IsObject(root))
L36_RootCheck(t) ==
    /\ t \in active
    /\ pc[t] = "L36"
    /\ Touch(t)
    /\ \E tr \in ReadTree(t) :
          IF ~cJSON_IsObject(tr)
          THEN cJSON_Delete(t) /\ Fail(t, MSG_ROOT)
          ELSE Pass(t, "L43") /\ UNCHANGED <<live, cell, frees>>
    /\ UNCHANGED <<root, frame>>
    /\ UNCHANGED <<mode, active, textAtCall, mem0, memo, cli>>

\* symptoms = cJSON_GetObjectItemCaseSensitive(root, "symptoms");
\* if (symptoms == NULL || !cJSON_IsArray(symptoms))
L43_Symptoms(t) ==
    /\ t \in active
    /\ pc[t] = "L43"
    /\ Touch(t)
    /\ \E tr \in ReadTree(t) :
          LET symptoms == cJSON_GetObjectItemCaseSensitive(tr, "symptoms")
          IN  IF symptoms = NULLItem \/ ~cJSON_IsArray(symptoms)
              THEN cJSON_Delete(t) /\ Fail(t, MSG_SYMPTOMS)
              ELSE Pass(t, "L51") /\ UNCHANGED <<live, cell, frees>>
    /\ UNCHANGED <<root, frame>>
    /\ UNCHANGED <<mode, active, textAtCall, mem0, memo, cli>>

\* severity_item = cJSON_GetObjectItemCaseSensitive(root, "severity");
\* if (severity_item == NULL || !cJSON_IsNumber(severity_item))
L51_Severity(t) ==
    /\ t \in active
    /\ pc[t] = "L51"
    /\ Touch(t)
    /\ \E tr \in ReadTree(t) :
          LET severity_item == cJSON_GetObjectItemCaseSensitive(tr, "severity")
          IN  IF severity_item = NULLItem \/ ~cJSON_IsNumber(severity_item)
              THEN cJSON_Delete(t) /\ Fail(t, MSG_SEVERITY)
              ELSE Pass(t, "L59") /\ UNCHANGED <<live, cell, frees>>
    /\ UNCHANGED <<root, frame>>
    /\ UNCHANGED <<mode, active, textAtCall, mem0, memo, cli>>

\* The range is looked at only after potential_triggers.
L59_RangeAfterTriggers(t) ==
    /\ t \in active
    /\ pc[t] = "L59"
    /\ Touch(t)
    /\ \E tr \in ReadTree(t) :
          LET s == cJSON_GetObjectItemCaseSensitive(tr, "severity").num
              potential_triggers ==
                  cJSON_GetObjectItemCaseSensitive(tr, "potential_triggers")
          IN  IF potential_triggers = NULLItem \/ ~cJSON_IsArray(potential_triggers)
              THEN cJSON_Delete(t) /\ Fail(t, MSG_TRIGGERS)
              ELSE IF SeverityOutOfRange(s)
              THEN cJSON_Delete(t) /\ Fail(t, MSG_RANGE)
              ELSE Pass(t, "L67") /\ UNCHANGED <<live, cell, frees>>
    /\ UNCHANGED <<root, frame>>
    /\ UNCHANGED <<mode, active, textAtCall, mem0, memo, cli>>

\* double s = severity_item->valuedouble;
\* if (s < SEVERITY_MIN || s > SEVERITY_MAX)
L59_Range(t) ==
    /\ t \in active
    /\ pc[t] = "L59"
    /\ Touch(t)
    /\ \E tr \in ReadTree(t) :
          LET s == cJSON_GetObjectItemCaseSensitive(tr, "severity").num
          IN  IF SeverityOutOfRange(s)
              THEN cJSON_Delete(t) /\ Fail(t, MSG_RANGE)
              ELSE Pass(t, "L67") /\ UNCHANGED <<live, cell, frees>>
    /\ UNCHANGED <<root, frame>>
    /\ UNCHANGED <<mode, active, textAtCall, mem0, memo, cli>>

\* potential_triggers = cJSON_GetObjectItemCaseSensitive(root, "potential_triggers");
\* if (potential_triggers == NULL || !cJSON_IsArray(potential_triggers))
L67_Triggers(t) ==
    /\ t \in active
    /\ pc[t] = "L67"
    /\ Touch(t)
    /\ \E tr \in ReadTree(t) :
          LET potential_triggers ==
                  cJSON_GetObjectItemCaseSensitive(tr, "potential_triggers")
          IN  IF potential_triggers = NULLItem \/ ~cJSON_IsArray(potential_triggers)
              THEN cJSON_Delete(t) /\ Fail(t, MSG_TRIGGERS)
              ELSE Pass(t, "L75") /\ UNCHANGED <<live, cell, frees>>
    /\ UNCHANGED <<root, frame>>
    /\ UNCHANGED <<mode, active, textAtCall, mem0, memo, cli>>

\* The tree is not released on the path that succeeds.
L75_SuccessLeaks(t) ==
    /\ t \in active
    /\ pc[t] = "L75"
    /\ result' = [result EXCEPT ![t] = 1]
    /\ pc' = [pc EXCEPT ![t] = "done"]
    /\ UNCHANGED <<mem, reported, lastDiag, live, cell, frees, uaf>>
    /\ UNCHANGED <<root, frame>>
    /\ UNCHANGED <<mode, active, textAtCall, mem0, memo, cli>>

\* The buffer is emptied on the path that succeeds.
L75_SuccessClears(t) ==
    /\ t \in active
    /\ pc[t] = "L75"
    /\ Touch(t)
    /\ cJSON_Delete(t)
    /\ result' = [result EXCEPT ![t] = 1]
    /\ pc' = [pc EXCEPT ![t] = "done"]
    /\ mem' = [mem EXCEPT ![t] =
                  IF error_msg[t] /\ error_size[t] > 0
                  THEN [mem[t] EXCEPT ![1] = NUL] ELSE mem[t]]
    /\ UNCHANGED <<reported, lastDiag>>
    /\ UNCHANGED <<root, frame>>
    /\ UNCHANGED <<mode, active, textAtCall, mem0, memo, cli>>

\* cJSON_Delete(root); return 1;
L75_Success(t) ==
    /\ t \in active
    /\ pc[t] = "L75"
    /\ Touch(t)
    /\ cJSON_Delete(t)
    /\ result' = [result EXCEPT ![t] = 1]
    /\ pc' = [pc EXCEPT ![t] = "done"]
    /\ UNCHANGED <<mem, reported, lastDiag>>
    /\ UNCHANGED <<root, frame>>
    /\ UNCHANGED <<mode, active, textAtCall, mem0, memo, cli>>

validate_voicehealth_json(t) ==
    \/ L23_NullCheck(t)
    \/ L29_Parse(t)
    \/ L36_RootCheck(t)
    \/ L43_Symptoms(t)
    \/ L51_Severity(t)
    \/ L59_Range(t)
    \/ L67_Triggers(t)
    \/ L75_Success(t)

\* ----------------------------------------------------------- initial states
NoMemo ==
    [set |-> FALSE, fresh |-> FALSE, ptr |-> "NULL", text |-> EmptyText,
     result |-> 0, diag |-> <<>>]

Blank == [i \in 1..MemSize |-> Fill]

InitCaller(who, sizes) ==
    /\ active = who
    /\ pc = [t \in Threads |-> "idle"]
    /\ json_string = [t \in Threads |-> "NULL"]
    /\ text = [t \in Threads |-> EmptyText]
    /\ error_msg \in [Threads -> BOOLEAN]
    /\ error_size \in [Threads -> sizes \cup {0}]
    /\ \A t \in who : error_size[t] \in sizes
    /\ \A t \in Threads \ who : ~error_msg[t] /\ error_size[t] = 0
    /\ mem \in [Threads -> {Blank, [Blank EXCEPT ![1] = NUL]}]
    /\ \A t \in Threads : (t \notin who \/ ~error_msg[t]) => mem[t] = Blank
    /\ root = [t \in Threads |-> 0]
    /\ result = [t \in Threads |-> -1]
    /\ live = {}
    /\ cell = [a \in Addrs |-> NoTree]
    /\ reported = [t \in Threads |-> <<>>]
    /\ frees = [t \in Threads |-> 0]
    /\ uaf = [t \in Threads |-> FALSE]
    /\ lastDiag = [t \in Threads |-> <<>>]
    /\ textAtCall = text
    /\ mem0 = mem
    /\ memo = NoMemo

NoCli ==
    [pc |-> "off", cap |-> INITIAL_CAP, len |-> 0, mlen |-> 0, buf |-> "none",
     json |-> "NULL", avail |-> 0, size |-> 0, text |-> EmptyText,
     offered |-> INITIAL_CAP, n |-> -1, termAt |-> -1, termCap |-> 0,
     grew |-> FALSE, nfree |-> 0, called |-> FALSE, stdout |-> <<>>,
     stderr |-> <<>>, exit |-> -1]

\* ------------------------------------------------------------ validate_cli
\* Sizes of standard input tried.
StdinSizes ==
    {0, 1, MIN_SPACE, MIN_SPACE + 1, INITIAL_CAP, INITIAL_CAP + MIN_SPACE + 1,
     MaxStdin}

\* What fread may return when it is offered space bytes and avail are left:
\* anything from 0 (end of input, or an error) to all of it.
ReadSizes(space, avail) ==
    {n \in {0, MIN_SPACE - 1, MIN_SPACE + 1, space, avail} :
        n <= space /\ n <= avail}

\* if (space == 0)
NeedsGrowWhenFull(space) == space < 1

\* if (space < 2048)
NeedsGrow(space) == space < MIN_SPACE

cliRest == <<mode, active, mem0, memo>>

\* char *buf = (char *)malloc(cap); if (!buf) return NULL;
R24_Malloc ==
    /\ cli.pc = "L24"
    /\ \E ok \in BOOLEAN :
          cli' = IF ok THEN [cli EXCEPT !.buf = "live", !.pc = "L28"]
                 ELSE [cli EXCEPT !.json = "NULL", !.pc = "L74"]
    /\ UNCHANGED <<valVars, textAtCall, cliRest>>

\* One turn of for (;;): grow when less than 2048 bytes are free, read, and
\* leave the loop when the read returned 0.
R28_Loop ==
    /\ cli.pc = "L28"
    /\ LET grow == NeedsGrow(cli.cap - cli.len)
       IN  \E ok \in BOOLEAN :
              IF grow /\ ~ok
              THEN cli' = [cli EXCEPT !.buf = "freed", !.nfree = @ + 1,
                                      !.json = "NULL", !.pc = "L74"]
              ELSE /\ ~grow => ok
                   /\ LET cap1 == IF grow THEN cli.cap * 2 ELSE cli.cap
                          space == cap1 - cli.len
                      IN  \E n \in ReadSizes(space, cli.avail) :
                             cli' = [cli EXCEPT !.cap = cap1,
                                                !.len = @ + n,
                                                !.avail = @ - n,
                                                !.offered = space,
                                                !.n = n,
                                                !.pc = IF n = 0 THEN "L53" ELSE "L28"]
    /\ UNCHANGED <<valVars, textAtCall, cliRest>>

\* if (len + 1 > cap) grow by one; buf[len] = '\0'; *out_len = len; return buf;
R53_Terminate ==
    /\ cli.pc = "L53"
    /\ \E ok \in BOOLEAN :
          IF cli.len + 1 > cli.cap
          THEN IF ok
               THEN cli' = [cli EXCEPT !.grew = TRUE, !.cap = cli.len + 1,
                                       !.termAt = cli.len, !.termCap = cli.len + 1,
                                       !.json = "buf", !.mlen = cli.len,
                                       !.pc = "L74"]
               ELSE cli' = [cli EXCEPT !.buf = "freed", !.nfree = @ + 1,
                                       !.json = "NULL", !.pc = "L74"]
          ELSE /\ ok
               /\ cli' = [cli EXCEPT !.termAt = cli.len, !.termCap = cli.cap,
                                     !.json = "buf", !.mlen = cli.len,
                                     !.pc = "L74"]
    /\ UNCHANGED <<valVars, textAtCall, cliRest>>

\* if (!json) { fprintf(stderr, "Failed to read stdin\n"); return 2; }
M74_CheckNull ==
    /\ cli.pc = "L74"
    /\ cli' = IF cli.json = "NULL"
              THEN [cli EXCEPT !.stderr = Append(@, MSG_READ_FAILED \o <<LF>>),
                               !.exit = 2, !.pc = "exit"]
              ELSE [cli EXCEPT !.pc = "L80"]
    /\ UNCHANGED <<valVars, textAtCall, cliRest>>

\* The empty input is turned away without free(json).
M80_CheckEmptyLeaks ==
    /\ cli.pc = "L80"
    /\ cli' = IF cli.mlen = 0
              THEN [cli EXCEPT !.stderr = Append(@, MSG_NO_INPUT \o <<LF>>),
                               !.exit = 2, !.pc = "exit"]
              ELSE [cli EXCEPT !.pc = "L87"]
    /\ UNCHANGED <<valVars, textAtCall, cliRest>>

\* if (len == 0) { fprintf(stderr, "No input provided on stdin\n"); free(json); return 2; }
M80_CheckEmpty ==
    /\ cli.pc = "L80"
    /\ cli' = IF cli.mlen = 0
              THEN [cli EXCEPT !.stderr = Append(@, MSG_NO_INPUT \o <<LF>>),
                               !.buf = "freed", !.nfree = @ + 1,
                               !.exit = 2, !.pc = "exit"]
              ELSE [cli EXCEPT !.pc = "L87"]
    /\ UNCHANGED <<valVars, textAtCall, cliRest>>

\* char err[256]; err[0] = '\0';
\* the call validate_voicehealth_json(json, err, sizeof(err))
M87_Call ==
    /\ cli.pc = "L87"
    /\ pc[1] = "idle"
    /\ cli' = [cli EXCEPT !.called = TRUE, !.pc = "L90"]
    /\ mem' = [mem EXCEPT ![1] = [@ EXCEPT ![1] = NUL]]
    /\ json_string' = [json_string EXCEPT ![1] = "text"]
    /\ text' = [text EXCEPT ![1] = cli.text]
    /\ textAtCall' = [textAtCall EXCEPT ![1] = cli.text]
    /\ result' = [result EXCEPT ![1] = -1]
    /\ reported' = [reported EXCEPT ![1] = <<>>]
    /\ frees' = [frees EXCEPT ![1] = 0]
    /\ error_msg' = [error_msg EXCEPT ![1] = TRUE]
    /\ error_size' = [error_size EXCEPT ![1] = ERR_SIZE]
    /\ pc' = [pc EXCEPT ![1] = "L23"]
    /\ UNCHANGED <<root, live, cell, uaf, lastDiag>>
    /\ UNCHANGED cliRest

\* if (ok) { fputs("1\n", stdout); free(json); return 0; }
\* fputs("0\n", stdout); if (err[0] != '\0') fprintf(stderr, "%s\n", err);
\* free(json); return 1;
M91_Report ==
    /\ cli.pc = "L90"
    /\ pc[1] = "done"
    /\ cli' = IF result[1] # 0
              THEN [cli EXCEPT !.stdout = Append(@, <<"1", LF>>),
                               !.buf = "freed", !.nfree = @ + 1,
                               !.exit = 0, !.pc = "exit"]
              ELSE [cli EXCEPT !.stdout = Append(@, <<"0", LF>>),
                               !.stderr =
                                   IF mem[1][1] # NUL
                                   THEN Append(@, CStr(mem[1], ERR_SIZE) \o <<LF>>)
                                   ELSE @,
                               !.buf = "freed", !.nfree = @ + 1,
                               !.exit = 1, !.pc = "exit"]
    /\ UNCHANGED <<valVars, textAtCall, cliRest>>

\* validate_cli run once on some standard input.
InitCli ==
    /\ mode = "cli"
    /\ active = {1}
    /\ pc = [t \in Threads |-> "idle"]
    /\ json_string = [t \in Threads |-> "NULL"]
    /\ text = [t \in Threads |-> EmptyText]
    /\ error_msg = [t \in Threads |-> FALSE]
    /\ error_size = [t \in Threads |-> 0]
    /\ mem = [t \in Threads |-> [i \in 1..ERR_SIZE |-> Fill]]
    /\ root = [t \in Threads |-> 0]
    /\ result = [t \in Threads |-> -1]
    /\ live = {}
    /\ cell = [a \in Addrs |-> NoTree]
    /\ reported = [t \in Threads |-> <<>>]
    /\ frees = [t \in Threads |-> 0]
    /\ uaf = [t \in Threads |-> FALSE]
    /\ lastDiag = [t \in Threads |-> <<>>]
    /\ textAtCall = text
    /\ mem0 = mem
    /\ memo = NoMemo
    /\ \E size \in StdinSizes :
       \E x \in OneTextEach :
          /\ size = 0 => x = CHOOSE y \in OneTextEach : TRUE
          /\ cli = [pc |-> "L24", cap |-> INITIAL_CAP, len |-> 0, mlen |-> 0,
                    buf |-> "none", json |-> "NULL", avail |-> size,
                    size |-> size,
                    text |-> IF size = 0 THEN EmptyText ELSE x,
                    offered |-> INITIAL_CAP, n |-> -1,
                    termAt |-> -1, termCap |-> 0, grew |-> FALSE,
                    nfree |-> 0, called |-> FALSE,
                    stdout |-> <<>>, stderr |-> <<>>, exit |-> -1]

validate_cli ==
    \/ R24_Malloc
    \/ R28_Loop
    \/ R53_Terminate
    \/ M74_CheckNull
    \/ M80_CheckEmpty
    \/ M87_Call
    \/ M91_Report

\* One caller, every text, a buffer that holds every message.
Init ==
    /\ mode = "wide"
    /\ InitCaller({1}, {MemSize})
    /\ error_msg[1]
    /\ mem[1] = Blank
    /\ cli = NoCli

\* One caller, one text for each outcome and a few more, every capacity,
\* with and without a buffer.
InitSizes ==
    /\ mode = "sizes"
    /\ InitCaller({1}, ErrorSizes)
    /\ cli = NoCli

\* One caller that remembers one of its calls, two capacities.
InitMemo ==
    /\ mode = "memo"
    /\ InitCaller({1}, {21, MemSize})
    /\ error_msg[1]
    /\ cli = NoCli

\* Two callers at once, each with its own text and its own buffer.
InitConc ==
    /\ mode = "conc"
    /\ InitCaller(Threads, {15})
    /\ \A t \in Threads : error_msg[t] /\ mem[t] = Blank
    /\ cli = NoCli

\* The caller keeps what a finished call gave, to compare later calls with.
Remember(t) ==
    /\ t \in active
    /\ pc[t] = "done"
    /\ ~memo.set
    /\ memo' = [set |-> TRUE, fresh |-> TRUE, ptr |-> json_string[t],
                text |-> text[t],
                result |-> result[t],
                diag |-> IF result[t] = 0 THEN CStr(mem[t], error_size[t]) ELSE <<>>]
    /\ UNCHANGED <<mode, active, valVars, textAtCall, mem0, cli>>

Next == \E t \in Threads : Call(t) \/ validate_voicehealth_json(t)

NextMemo == \E t \in Threads : Call(t) \/ validate_voicehealth_json(t) \/ Remember(t)

NextCli == validate_cli \/ validate_voicehealth_json(1)

Spec == Init /\ [][Next]_vars
SpecSizes == InitSizes /\ [][Next]_vars
SpecMemo == InitMemo /\ [][NextMemo]_vars
SpecConc == InitConc /\ [][Next]_vars
SpecCli == InitCli /\ [][NextCli]_vars
\* --------------------------------------------------- what the schema asks
\* The schema of the header: a text that parses, an Object at the root,
\* "symptoms" an Array, "severity" a Number in [0, 10], "potential_triggers"
\* an Array.
SchemaHolds(p, x) ==
    /\ p = "text"
    /\ x.kind = "json"
    /\ x.root = "Object"
    /\ x.members.symptoms.type = "Array"
    /\ x.members.severity.type = "Number"
    /\ x.members.severity.num >= 0
    /\ x.members.severity.num <= 10 * Scale
    /\ x.members.potential_triggers.type = "Array"

\* The diagnostic of the earliest step that fails, in the documented order
\* (the empty sequence when none fails).
FirstFailure(p, x) ==
    IF p = "NULL" THEN MSG_INPUT_NULL
    ELSE IF x.kind # "json" THEN MSG_MALFORMED
    ELSE IF x.root # "Object" THEN MSG_ROOT
    ELSE IF x.members.symptoms.type # "Array" THEN MSG_SYMPTOMS
    ELSE IF x.members.severity.type # "Number" THEN MSG_SEVERITY
    ELSE IF x.members.severity.num < 0 \/ x.members.severity.num > 10 * Scale
         THEN MSG_RANGE
    ELSE IF x.members.potential_triggers.type # "Array" THEN MSG_TRIGGERS
    ELSE <<>>

\* The first min(Len(msg), n - 1) characters of msg.
Truncated(msg, n) == SubSeq(msg, 1, Min(Len(msg), n - 1))

Usable(t) == error_msg[t] /\ error_size[t] > 0

\* C1: a finished call returned 1 exactly when the input is not NULL, parses,
\* has an Object at the root and the three members of the right type with
\* severity in [0, 10], and 0 otherwise, whatever other keys the object has.
C1_ValidIffSchema ==
    \A t \in active :
        pc[t] = "done" =>
            result[t] = IF SchemaHolds(json_string[t], text[t]) THEN 1 ELSE 0

\* A valid object that also has the keys "extra" and "Severity".
C1_Witness ==
    /\ pc[1] = "done"
    /\ result[1] = 1
    /\ text[1].members.extra # NULLItem
    /\ text[1].members.Severity # NULLItem

\* C2: a call that returned 0 reported the diagnostic of the earliest failing
\* step, and that diagnostic is what the buffer holds.
C2_FirstFailureReported ==
    \A t \in active :
        (pc[t] = "done" /\ result[t] = 0) =>
            /\ reported[t] = FirstFailure(json_string[t], text[t])
            /\ CStr(mem[t], error_size[t]) = FirstFailure(json_string[t], text[t])

\* Severity out of range and potential_triggers missing: the range diagnostic.
C2_Witness ==
    /\ pc[1] = "done"
    /\ result[1] = 0
    /\ json_string[1] = "text"
    /\ text[1].members.symptoms.type = "Array"
    /\ text[1].members.severity = Item("Number", 11 * Scale)
    /\ text[1].members.potential_triggers = NULLItem
    /\ CStr(mem[1], error_size[1]) = MSG_RANGE

\* C3: with symptoms and potential_triggers arrays and severity a Number, the
\* call is valid for every severity from 0 to 10, both ends and fractions
\* included, and invalid with the range diagnostic for every other value.
C3_SeverityBoundsInclusive ==
    \A t \in active :
        ( /\ pc[t] = "done"
          /\ json_string[t] = "text"
          /\ text[t].kind = "json"
          /\ text[t].root = "Object"
          /\ text[t].members.symptoms.type = "Array"
          /\ text[t].members.potential_triggers.type = "Array"
          /\ text[t].members.severity.type = "Number" ) =>
            LET s == text[t].members.severity.num
            IN  IF 0 <= s /\ s <= 10 * Scale
                THEN result[t] = 1
                ELSE result[t] = 0 /\ CStr(mem[t], error_size[t]) = MSG_RANGE

\* Severity exactly 10 was found valid.
C3_Witness ==
    /\ pc[1] = "done"
    /\ result[1] = 1
    /\ text[1].members.severity = Item("Number", 10 * Scale)

\* C4: after an invalid call with a buffer of capacity n > 0 the buffer holds
\* the first min(len, n - 1) characters of the diagnostic and then the
\* terminator; no cell at index n or beyond is ever written; with no buffer
\* or n = 0 nothing is written; and the result is right in every case.
C4_BoundedDiagnostic ==
    \A t \in active :
        /\ \A i \in 1..Len(mem[t]) : i > error_size[t] => mem[t][i] = mem0[t][i]
        /\ ~Usable(t) => mem[t] = mem0[t]
        /\ pc[t] = "done" =>
               result[t] = IF SchemaHolds(json_string[t], text[t]) THEN 1 ELSE 0
        /\ (pc[t] = "done" /\ result[t] = 0 /\ Usable(t)) =>
               LET msg == FirstFailure(json_string[t], text[t])
                   k == Min(Len(msg), error_size[t] - 1)
               IN  /\ \A i \in 1..k : mem[t][i] = msg[i]
                   /\ mem[t][k + 1] = NUL

\* A 55-character diagnostic cut to fit a buffer of 15.
C4_Witness ==
    /\ pc[1] = "done"
    /\ result[1] = 0
    /\ error_msg[1]
    /\ error_size[1] = 15
    /\ reported[1] = MSG_TRIGGERS
    /\ mem[1][15] = NUL
    /\ mem[1][14] = MSG_TRIGGERS[14]

\* C5: a call that returned released its tree exactly once when parsing had
\* succeeded and released nothing otherwise; no tree was read or released
\* after its release; and when no call is running no tree is live.
C5_TreeReleasedOnce ==
    /\ \A t \in active :
          /\ ~uaf[t]
          /\ pc[t] = "done" =>
                IF json_string[t] = "text" /\ text[t].kind = "json"
                THEN frees[t] = 1 /\ Root(t) \notin live
                ELSE frees[t] = 0
    /\ (\A t \in active : pc[t] \in {"idle", "done"}) => live = {}

\* A call that parsed, failed a field check, and left nothing live.
C5_Witness ==
    /\ pc[1] = "done"
    /\ result[1] = 0
    /\ reported[1] = MSG_SEVERITY
    /\ frees[1] = 1
    /\ live = {}

\* C6: a later call on the input of a remembered call, whatever was validated
\* in between, returns what the remembered call returned and, when invalid,
\* leaves the same diagnostic in the buffer.
C6_SameInputSameOutcome ==
    \A t \in active :
        ( /\ pc[t] = "done"
          /\ memo.set
          /\ memo.ptr = json_string[t]
          /\ memo.text = text[t] ) =>
            /\ result[t] = memo.result
            /\ result[t] = 0 => CStr(mem[t], error_size[t]) = memo.diag

\* A second, later call on the remembered invalid input has finished.
C6_Witness ==
    /\ pc[1] = "done"
    /\ memo.set
    /\ ~memo.fresh
    /\ memo.ptr = json_string[1]
    /\ memo.text = text[1]
    /\ memo.result = 0
    /\ reported[1] = MSG_SYMPTOMS

C9_ValidCallWritesNothing ==
    \A t \in active :
        /\ lastDiag[t] = <<>> => mem[t] = mem0[t]
        /\ (lastDiag[t] # <<>> /\ Usable(t)) =>
               CStr(mem[t], error_size[t]) = Truncated(lastDiag[t], error_size[t])
        /\ text[t] = textAtCall[t]

\* A valid call has returned and the buffer still holds the diagnostic of an
\* earlier, invalid call.
C9_Witness ==
    /\ pc[1] = "done"
    /\ result[1] = 1
    /\ Usable(1)
    /\ error_size[1] = 34
    /\ lastDiag[1] = MSG_RANGE
    /\ CStr(mem[1], error_size[1]) = MSG_RANGE

\* C10: in read_all_stdin len never exceeds cap, every read is offered at
\* least 2048 bytes, the loop is left once a read returns 0 and then
\* len + 1 <= cap, so the terminator lands inside the allocation and the
\* grow-by-one branch is never taken.
C10_ReadBufferBounds ==
    /\ cli.len <= cli.cap
    /\ cli.offered >= 2048
    /\ cli.pc = "L28" => cli.n # 0
    /\ cli.pc = "L53" => (cli.n = 0 /\ cli.len + 1 <= cli.cap)
    /\ cli.termAt < cli.termCap
    /\ ~cli.grew

\* Input longer than two doublings was read and terminated.
C10_Witness ==
    /\ cli.termAt = MaxStdin
    /\ cli.cap > 2 * INITIAL_CAP
    /\ cli.json = "buf"
====
